---- MODULE Spec2Model ----
(***************************************************************************)
(* Tableau (simplex) solver of coma_project: the single-phase screen       *)
(* (src/unnamed/part_002), its earlier variant (src/unnamed/part_003), and *)
(* the Two-Phase screens (src/app/(tabs)/Phase1.tsx, Phase2.tsx).          *)
(*                                                                         *)
(* Numbers.  The code computes in IEEE doubles; the model computes in      *)
(* exact rationals <<n, d>> (d > 0, lowest terms) and keeps every epsilon  *)
(* comparison of the code (1e-10, 1e-12, 1e-9) as a comparison of the      *)
(* rational with that epsilon.  A number may carry a second rational that  *)
(* counts units of 1e-11, for inputs such as 0.99999999995.  Indexes are   *)
(* 1-based (JavaScript's i is the model's i + 1; indexOf's -1 is 0).       *)
(***************************************************************************)
EXTENDS Integers, Sequences, FiniteSets, TLC

\* ------------------------------------------------------------ rationals

RECURSIVE GCD(_, _)
GCD(a, b) == IF b = 0 THEN a ELSE GCD(b, a % b)

IAbs(n) == IF n < 0 THEN -n ELSE n

\* the rational n/d in lowest terms with a positive denominator (d # 0)
Rat(n, d) ==
  LET g == GCD(IAbs(n), IAbs(d))
      s == IF d < 0 THEN -1 ELSE 1
  IN  <<(s * n) \div g, (s * d) \div g>>

R(n) == <<n, 1>>
Zero == <<0, 1>>
One == <<1, 1>>

\* A number is a rational <<n, d>>, or <<n, d, tn, td>> for n/d + (tn/td) * 1e-11
\* with tn # 0: a value a decimal input gives that lies nearer to n/d than a
\* rational <<n, d>> can.  Products of two such parts (1e-22) are dropped, and a
\* part stays small against any nonzero n/d: comparisons go by n/d first.
Std(x) == <<x[1], x[2]>>
Tiny(x) == IF Len(x) = 4 THEN <<x[3], x[4]>> ELSE Zero
Mk(q, t) == IF t[1] = 0 THEN q ELSE q \o t

RECURSIVE RAdd(_, _)
RAdd(a, b) ==
  IF Len(a) = 2 /\ Len(b) = 2 THEN Rat(a[1] * b[2] + b[1] * a[2], a[2] * b[2])
  ELSE Mk(RAdd(Std(a), Std(b)), RAdd(Tiny(a), Tiny(b)))
RNeg(a) == IF Len(a) = 2 THEN <<-a[1], a[2]>> ELSE <<-a[1], a[2], -a[3], a[4]>>
RSub(a, b) == RAdd(a, RNeg(b))
RECURSIVE RMul(_, _)
RMul(a, b) ==
  IF Len(a) = 2 /\ Len(b) = 2 THEN Rat(a[1] * b[1], a[2] * b[2])
  ELSE Mk(RMul(Std(a), Std(b)),
          RAdd(RMul(Std(a), Tiny(b)), RMul(Tiny(a), Std(b))))
\* a / b for a divisor with n/d # 0
RECURSIVE RDiv(_, _)
RDiv(a, b) ==
  IF Len(a) = 2 /\ Len(b) = 2 THEN Rat(a[1] * b[2], a[2] * b[1])
  ELSE Mk(RDiv(Std(a), Std(b)),
          RDiv(RSub(RMul(Tiny(a), Std(b)), RMul(Std(a), Tiny(b))),
               RMul(Std(b), Std(b))))
RECURSIVE RLt(_, _)
RLt(a, b) ==
  IF Len(a) = 2 /\ Len(b) = 2 THEN a[1] * b[2] < b[1] * a[2]
  ELSE IF Std(a) = Std(b) THEN RLt(Tiny(a), Tiny(b))
  ELSE RLt(Std(a), Std(b))
RLe(a, b) == ~RLt(b, a)
RAbs(a) == IF RLt(a, Zero) THEN RNeg(a) ELSE a

\* 1e-10 = 1 / (E5 * E5), 1e-12 = 1 / (E6 * E6), 1e-9 = 1 / E9
E5 == 100000
E6 == 1000000
E9 == 1000000000

\* x > 1e-10, x <= 1e-10, x >= -1e-10, |x| < 1e-10, |x| < 1e-12, x > 1e-9
\* (n/d > 1/K  iff  n > floor(d/K);  |n|/d < 1/K  iff  |n| <= floor((d-1)/K);
\* 1e-10, 1e-12 and 1e-9 are 10, 1/10 and 100 times 1e-11)
GtEps10(x) ==
  IF Len(x) = 2 THEN x[1] > (x[2] \div E5) \div E5
  ELSE IF x[1] = 0 THEN RLt(R(10), Tiny(x)) ELSE x[1] > 0
LeEps10(x) == ~GtEps10(x)
GeNegEps10(x) ==
  IF Len(x) = 2 THEN -x[1] <= (x[2] \div E5) \div E5
  ELSE IF x[1] = 0 THEN RLe(R(-10), Tiny(x)) ELSE x[1] > 0
AbsLtEps10(x) ==
  IF Len(x) = 2 THEN IAbs(x[1]) <= ((x[2] - 1) \div E5) \div E5
  ELSE x[1] = 0 /\ RLt(RAbs(Tiny(x)), R(10))
AbsLtEps12(x) ==
  IF Len(x) = 2 THEN IAbs(x[1]) <= ((x[2] - 1) \div E6) \div E6
  ELSE x[1] = 0 /\ RLt(RAbs(Tiny(x)), Rat(1, 10))
GtEps9(x) ==
  IF Len(x) = 2 THEN x[1] > x[2] \div E9
  ELSE IF x[1] = 0 THEN RLt(R(100), Tiny(x))
  ELSE IF Std(x) = <<1, E9>> THEN x[3] > 0
  ELSE x[1] > x[2] \div E9

\* the element of a one-element set (binds a computed value once)
TheOne(S) == CHOOSE x \in S : x = x

\* ------------------------------------------------------------ names

\* variable names "x1", "s2", "e1", "a1" as <<letter, number>>; null as NoVar
Name(k, i) == <<k, i>>
NoVar == <<"null", 0>>
StartsWith(v, k) == v[1] = k

\* Array.indexOf, 1-based; 0 when absent
IndexOf(seq, x) ==
  IF \E i \in DOMAIN seq : seq[i] = x
  THEN CHOOSE i \in DOMAIN seq : seq[i] = x /\ \A j \in 1..(i - 1) : seq[j] # x
  ELSE 0

\* the screens: "Solution" (part_002), "Alt" (part_003), "Phase1", "Phase2"
IsAlt(scr) == scr = "Alt"
IsMin(scr) == scr = "Phase1"

\* ------------------------------------------------------------ pivot engine

RECURSIVE SumRows(_, _, _, _, _)
\* sum over the constraint rows lo..hi of cb[r] * table[r][j] (summed by halves)
SumRows(table, cb, j, lo, hi) ==
  IF lo > hi THEN Zero
  ELSE IF lo = hi THEN RMul(cb[lo], table[lo][j])
  ELSE TheOne({ RAdd(low, high) :
                low \in {SumRows(table, cb, j, lo, (lo + hi) \div 2)},
                high \in {SumRows(table, cb, j, (lo + hi) \div 2 + 1, hi)} })

\* the Zj/Cj-Zj clean-up; the earlier variant has none
Snap10(x, scr) == IF ~IsAlt(scr) /\ AbsLtEps10(x) THEN Zero ELSE x

\* Math.max(...s) and Math.min(...s)
MaxOf(s) == CHOOSE m \in {s[i] : i \in DOMAIN s} : \A i \in DOMAIN s : RLe(s[i], m)
MinOf(s) == CHOOSE m \in {s[i] : i \in DOMAIN s} : \A i \in DOMAIN s : RLe(m, s[i])

\* Math.max(...cjZjVars) on the maximize screens, Math.min on Phase 1
BestVal(cjZjVars, scr) == IF IsMin(scr) THEN MinOf(cjZjVars) ELSE MaxOf(cjZjVars)

\* the optimality test on that value
NoEntering(best, scr) ==
  IF IsMin(scr) THEN GeNegEps10(best)
  ELSE IF IsAlt(scr) THEN RLe(best, Zero)
  ELSE LeEps10(best)

\* a row passes the ratio test's coefficient guard
ColPositive(colVal, scr) == IF IsAlt(scr) THEN RLt(Zero, colVal) ELSE GtEps10(colVal)

\* ratio admitted against the running minimum; Inf stands for Infinity
Inf == <<1, 0>>
RatioBetter(ratio, minRatio, scr) ==
  IF IsAlt(scr)
  THEN minRatio = Inf \/ GtEps9(RSub(minRatio, ratio))
  ELSE GeNegEps10(ratio) /\ (minRatio = Inf \/ GtEps10(RSub(minRatio, ratio)))

\* RatioRow taking every row with a positive coefficient, whatever its ratio
RatioRowUnordered(table, enteringIndex, scr, i, acc) ==
  LET colVal == table[i][enteringIndex]
      rhsVal == table[i][Len(table[i])]
  IN  IF ColPositive(colVal, scr)
      THEN <<RDiv(rhsVal, colVal), i>>
      ELSE acc

\* one pass of the ratio-test loop, at row i, on acc = <<minRatio, leavingIdx>>
RatioRow(table, enteringIndex, scr, i, acc) ==
  LET colVal == table[i][enteringIndex]
      rhsVal == table[i][Len(table[i])]
  IN  IF ColPositive(colVal, scr) /\ RatioBetter(RDiv(rhsVal, colVal), acc[1], scr)
      THEN <<RDiv(rhsVal, colVal), i>>
      ELSE acc

RECURSIVE RatioScan(_, _, _, _, _, _)
\* the ratio-test loop over rows lo..hi in order (evaluated by halves)
RatioScan(table, enteringIndex, scr, lo, hi, acc) ==
  IF lo > hi THEN acc
  ELSE IF lo = hi THEN RatioRow(table, enteringIndex, scr, lo, acc)
  ELSE TheOne({ RatioScan(table, enteringIndex, scr, (lo + hi) \div 2 + 1, hi, low) :
                low \in {RatioScan(table, enteringIndex, scr, lo, (lo + hi) \div 2, acc)} })

\* leaving row (0: none) for an entering column
RatioTest(table, enteringIndex, scr) ==
  RatioScan(table, enteringIndex, scr, 1, Len(table) - 2, <<Inf, 0>>)[2]

\* the Cj-Zj entries under the variable columns of a table with derived rows
CjZjVars(table, nVars) == SubSeq(table[Len(table)], 1, nVars)

\* EnteringIndex taking the last column that attains the best value
EnteringIndexLast(cjZjVars, scr) ==
  CHOOSE k \in DOMAIN cjZjVars :
    /\ cjZjVars[k] = BestVal(cjZjVars, scr)
    /\ \A j \in DOMAIN cjZjVars : j > k => cjZjVars[j] # cjZjVars[k]

\* cjZjVars.indexOf(maxVal), cjZjVars.indexOf(minVal)
EnteringIndex(cjZjVars, scr) == IndexOf(cjZjVars, BestVal(cjZjVars, scr))

\* the entering column and the leaving row (0: none) the handlers pick from the
\* Cj-Zj row of a table (best is read only when nVars > 0)
Select(table, nVars, scr) ==
  TheOne({ [best |-> cjZjVars[e], enteringIndex |-> e,
            leavingRowIdx |-> RatioTest(table, e, scr)] :
           cjZjVars \in {CjZjVars(table, nVars)},
           e \in {EnteringIndex(CjZjVars(table, nVars), scr)} })

\* the cost coefficients of the basic variables (0 for a name not found)
CB(basicVars, cjRow, allVars) ==
  TheOne({ [i \in 1..Len(basicVars) |->
              IF idx[i] = 0 \/ idx[i] > Len(cjRow) THEN Zero ELSE cjRow[idx[i]]] :
           idx \in {[i \in 1..Len(basicVars) |-> IndexOf(allVars, basicVars[i])]} })

\* the table with its Zj and Cj-Zj rows recomputed
DerivedRows(table, basicVars, cjRow, allVars, scr) ==
  LET rowsCount == Len(table) - 2
      cols == Len(table[1])
  IN  TheOne({ SubSeq(table, 1, rowsCount)
                 \o << [j \in 1..cols |-> Snap10(zjRaw[j], scr)],
                       [j \in 1..cols |->
                          Snap10(IF j <= Len(cjRow) THEN RSub(cjRow[j], zjRaw[j])
                                 ELSE Zero, scr)] >> :
               zjRaw \in {[j \in 1..cols |->
                             SumRows(table, CB(basicVars, cjRow, allVars), j, 1, rowsCount)]} })

computeZjAndCjMinusZj(table, basicVars, cjRow, allVars, scr) ==
  IF Len(table) < 2 THEN [table |-> table, enteringVar |-> NoVar, leavingVar |-> NoVar]
  ELSE
  TheOne({ TheOne({
      IF NoEntering(sel.best, scr)
      THEN [table |-> newTable, enteringVar |-> NoVar, leavingVar |-> NoVar]
      ELSE [table |-> newTable,
            enteringVar |-> allVars[sel.enteringIndex],
            leavingVar |-> IF sel.leavingRowIdx = 0 THEN NoVar
                           ELSE basicVars[sel.leavingRowIdx]] :
      sel \in {Select(newTable, Len(allVars), scr)} }) :
    newTable \in {DerivedRows(table, basicVars, cjRow, allVars, scr)} })

\* PivotThrows with a guard that rejects every pivot value below 3 in magnitude
PivotThrowsBelowThree(pivotVal, scr) == RLt(RAbs(pivotVal), R(3))

\* performPivot throws on this pivot value
PivotThrows(pivotVal, scr) == IF IsAlt(scr) THEN pivotVal = Zero ELSE AbsLtEps12(pivotVal)

\* the pivot's clean-up of small entries; the earlier variant has none
Snap12(x, scr) == IF ~IsAlt(scr) /\ AbsLtEps12(x) THEN Zero ELSE x

\* performPivot eliminating with the pivot row as it was before it was normalised
performPivotStaleRow(currentTable, pivotRowIdx, pivotColIdx, scr) ==
  LET rowsCount == Len(currentTable) - 2
      cols == Len(currentTable[1])
      pivotVal == currentTable[pivotRowIdx][pivotColIdx]
  IN  [i \in 1..Len(currentTable) |->
         IF i = pivotRowIdx
         THEN [j \in 1..cols |-> Snap12(RDiv(currentTable[i][j], pivotVal), scr)]
         ELSE IF i > rowsCount \/ AbsLtEps12(currentTable[i][pivotColIdx])
         THEN currentTable[i]
         ELSE [j \in 1..cols |->
                 Snap12(RSub(currentTable[i][j],
                             RMul(currentTable[i][pivotColIdx],
                                  currentTable[pivotRowIdx][j])), scr)]]

\* performPivot when it does not throw: the table with the pivot row normalised
\* and the pivot column eliminated from the other constraint rows
performPivot(currentTable, pivotRowIdx, pivotColIdx, scr) ==
  LET rowsCount == Len(currentTable) - 2
      cols == Len(currentTable[1])
      pivotVal == currentTable[pivotRowIdx][pivotColIdx]
  IN  TheOne({
        [i \in 1..Len(currentTable) |->
           IF i = pivotRowIdx THEN pivotRow
           ELSE IF i > rowsCount \/ AbsLtEps12(currentTable[i][pivotColIdx])
           THEN currentTable[i]
           ELSE [j \in 1..cols |->
                   Snap12(RSub(currentTable[i][j],
                               RMul(currentTable[i][pivotColIdx], pivotRow[j])), scr)]] :
        pivotRow \in {[j \in 1..cols |->
                         Snap12(RDiv(currentTable[pivotRowIdx][j], pivotVal), scr)]} })

\* ------------------------------------------------------------ problem instances

\* a row of integers as a row of rationals
Ints(s) == [i \in DOMAIN s |-> R(s[i])]

\* route.params of the solving screens, with the screen handleSolve navigates to
\* (part_001:144-161: "Solution" when every operator is "<=", else "Phase1");
\* "Alt" is the earlier Solution screen, given the same parameters
Problem(scr, opt, obj, mat, rhsv, types) ==
  [screen |-> scr, optType |-> opt, objective |-> obj, constraintsMatrix |-> mat,
   rhs |-> rhsv, constraintTypes |-> types]

LE == "<="
GE == ">="
EQ == "="

\* spec scenario A
ScenarioA(scr) == Problem(scr, "Maximize", Ints(<<3, 5>>),
  <<Ints(<<1, 0>>), Ints(<<0, 2>>), Ints(<<3, 2>>)>>, Ints(<<4, 12, 18>>), <<LE, LE, LE>>)
\* spec scenario B
ScenarioB == Problem("Phase1", "Minimize", Ints(<<1, 1>>),
  <<Ints(<<2, 1>>), Ints(<<1, 2>>)>>, Ints(<<4, 3>>), <<EQ, EQ>>)
\* spec scenario C
ScenarioC == Problem("Phase1", "Maximize", Ints(<<1, 1>>),
  <<Ints(<<1, 1>>), Ints(<<1, 1>>)>>, Ints(<<2, 5>>), <<LE, GE>>)
\* spec scenario D
ScenarioD(scr) == Problem(scr, "Maximize", Ints(<<1, 0>>),
  <<Ints(<<1, -1>>)>>, Ints(<<1>>), <<LE>>)
\* a minimize problem on the single-phase screen
MinLE(scr) == Problem(scr, "Minimize", Ints(<<-1, -2>>),
  <<Ints(<<1, 1>>), Ints(<<1, 0>>)>>, Ints(<<4, 3>>), <<LE, LE>>)
\* a negative right-hand side with "<=" (part_001:119-124 warns and goes on)
NegLE(scr) == Problem(scr, "Maximize", Ints(<<1, 1>>),
  <<Ints(<<-1, 1>>), Ints(<<1, 1>>)>>, Ints(<<-1, 3>>), <<LE, LE>>)
\* two equal equalities: an artificial variable stays basic at 0, no slack exists
Redundant == Problem("Phase1", "Maximize", Ints(<<1, 1>>),
  <<Ints(<<1, 1>>), Ints(<<1, 1>>)>>, Ints(<<2, 2>>), <<EQ, EQ>>)
\* the same with a "<=" row in front: a slack exists and is basic
RedundantSlack == Problem("Phase1", "Maximize", Ints(<<1, 1>>),
  <<Ints(<<1, 0>>), Ints(<<1, 1>>), Ints(<<1, 1>>)>>, Ints(<<3, 2, 2>>), <<LE, EQ, EQ>>)
\* feasible two-phase problems: Phase 2 pivots to the optimum / is unbounded
TwoPhaseOpt == Problem("Phase1", "Maximize", Ints(<<1, 1>>),
  <<Ints(<<1, -1>>), Ints(<<1, 1>>)>>, Ints(<<0, 2>>), <<EQ, LE>>)
TwoPhaseUnb == Problem("Phase1", "Maximize", Ints(<<2, 1>>),
  <<Ints(<<1, 1>>), Ints(<<1, 0>>)>>, Ints(<<1, 2>>), <<GE, LE>>)
\* an equality with a negative right-hand side
NegEQ == Problem("Phase1", "Maximize", Ints(<<1>>),
  <<Ints(<<1>>)>>, Ints(<<-1>>), <<EQ>>)
\* Beale's degenerate problem, on which the pivot rule cycles with period 6
BealeObj == <<Rat(3, 4), R(-20), Rat(1, 2), R(-6)>>
BealeRow1 == <<Rat(1, 4), R(-8), R(-1), R(9)>>
BealeRow2 == <<Rat(1, 2), R(-12), Rat(-1, 2), R(3)>>
Beale(scr) == Problem(scr, "Maximize", BealeObj,
  <<BealeRow1, BealeRow2>>, Ints(<<0, 0>>), <<LE, LE>>)
\* the same behind an equality x5 = 1: Phase 1 ends feasible, Phase 2 cycles
BealeTwoPhase == Problem("Phase1", "Maximize", BealeObj \o <<Zero>>,
  <<BealeRow1 \o <<Zero>>, BealeRow2 \o <<Zero>>, Ints(<<0, 0, 0, 0, 1>>)>>,
  Ints(<<0, 0, 1>>), <<LE, LE, EQ>>)

\* Klee-Minty cubes side by side, one block of sizes[k] variables and rows each:
\* block k maximizes sum 2^(n-j) x_j under 2^(i-j+1) x_j (j < i) + x_i <= 5^i.
\* A block of n takes 2^n - 1 pivots, the blocks together the sum of theirs.
RECURSIVE Pow(_, _)
Pow(b, e) == IF e = 0 THEN 1 ELSE b * Pow(b, e - 1)

RECURSIVE SumTo(_, _)
SumTo(sizes, k) == IF k = 0 THEN 0 ELSE SumTo(sizes, k - 1) + sizes[k]

BlockOf(sizes, v) ==
  CHOOSE k \in DOMAIN sizes : SumTo(sizes, k - 1) < v /\ v <= SumTo(sizes, k)
LocalOf(sizes, v) == v - SumTo(sizes, BlockOf(sizes, v) - 1)

KleeMinty(scr, sizes) ==
  LET n == SumTo(sizes, Len(sizes))
      blk(v) == BlockOf(sizes, v)
      loc(v) == LocalOf(sizes, v)
  IN  Problem(scr, "Maximize",
        [j \in 1..n |-> R(Pow(2, sizes[blk(j)] - loc(j)))],
        [i \in 1..n |->
           [j \in 1..n |->
              IF blk(j) # blk(i) \/ loc(j) > loc(i) THEN Zero
              ELSE IF loc(j) = loc(i) THEN One
              ELSE R(Pow(2, loc(i) - loc(j) + 1))]],
        [i \in 1..n |-> R(Pow(5, loc(i)))],
        [i \in 1..n |-> LE])

\* 63 + 31 + 3 + 3 = 100 pivots to the optimum; 127 pivots to the optimum
Hundred(scr) == KleeMinty(scr, <<6, 5, 2, 2>>)
Cube7 == KleeMinty("Solution", <<7>>)

HundredProblems == { Hundred("Solution"), Hundred("Alt") }

Problems ==
  { ScenarioA("Solution"), ScenarioA("Alt"), ScenarioB, ScenarioC,
    ScenarioD("Solution"), ScenarioD("Alt"), MinLE("Solution"), NegLE("Solution"),
    Redundant, RedundantSlack, TwoPhaseOpt, TwoPhaseUnb, NegEQ }

CyclingProblems == { Beale("Solution"), Beale("Alt"), BealeTwoPhase }

\* right-hand sides entered as 0.99999999995 and 2.99999999973: the ratios of two
\* rows differ by less than 1e-10.  Every right-hand side is >= 0.
NearTie(scr) == Problem(scr, "Maximize", Ints(<<2, 1>>),
  <<Ints(<<1, 0>>), Ints(<<1, 1>>)>>, <<One, Mk(One, R(-5))>>, <<LE, LE>>)
NearTieTwoPhase == Problem("Phase1", "Maximize", Ints(<<1, 1, 1>>),
  <<Ints(<<1, 0, 0>>), Ints(<<3, 4, 0>>), Ints(<<0, -2, 1>>)>>,
  <<One, Mk(R(3), R(-27)), Zero>>, <<LE, EQ, EQ>>)

NearTieProblems == { NearTie("Solution"), NearTie("Alt"), NearTieTwoPhase }

\* the screen handleSolve navigates to for an operator vector
Route(types) ==
  IF \A i \in DOMAIN types : types[i] = LE THEN "Solution" ELSE "Phase1"

\* problems of every operator vector of 1..MaxFormRows rows, with 1..MaxFormVars
\* variables, in both directions: constraint i has the coefficients i + 1, i + 2,
\* ... and the right-hand side 10 i, the objective the coefficients 1, 2, ...
MaxFormRows == 3
MaxFormVars == 2

OperatorVectors == UNION { [1..m -> {LE, GE, EQ}] : m \in 1..MaxFormRows }

FormProblem(n, types, opt) ==
  Problem(Route(types), opt, [j \in 1..n |-> R(j)],
          [i \in DOMAIN types |-> [j \in 1..n |-> R(i + j)]],
          [i \in DOMAIN types |-> R(10 * i)], types)

FormProblems ==
  { FormProblem(n, types, opt) :
      n \in 1..MaxFormVars, types \in OperatorVectors, opt \in {"Maximize", "Minimize"} }

\* ------------------------------------------------------------ formulation

\* Array(n).fill(0)
Zeros(n) == [i \in 1..n |-> Zero]

\* CountBefore counting every row before row i, whatever its operator
CountBeforeAnyKind(types, ks, i) == i - 1

\* the number of rows before row i whose operator is in the set ks
CountBefore(types, ks, i) == Cardinality({r \in 1..(i - 1) : types[r] \in ks})

\* the useEffect handing the objective on as entered
AdjustedObjectiveAsEntered(p) == p.objective

\* the useEffect of the single-phase screens: the objective negated when minimizing
AdjustedObjective(p) ==
  IF p.optType = "Minimize" THEN [i \in DOMAIN p.objective |-> RNeg(p.objective[i])]
  ELSE p.objective

\* Built setting a Cj row that lacks its last entry
BuiltShortCj(computed, vs, c, basics) ==
  [table |-> computed.table, vars |-> vs, cj |-> SubSeq(c, 1, Len(c) - 1),
   basics |-> basics,
   enteringVar |-> computed.enteringVar, leavingVar |-> computed.leavingVar]

\* what a screen's constructor sets: table, variables, cj, basicVariables and the
\* entering/leaving variables (iteration 1, message null)
Built(computed, vs, c, basics) ==
  [table |-> computed.table, vars |-> vs, cj |-> c, basics |-> basics,
   enteringVar |-> computed.enteringVar, leavingVar |-> computed.leavingVar]

createInitialSimplexTable(obj, constraints, rhsValues, scr) ==
  LET numVars == Len(obj)
      numConstraints == Len(constraints)
      newCj == obj \o Zeros(numConstraints)
      newVariables == [i \in 1..numVars |-> Name("x", i)]
                        \o [i \in 1..numConstraints |-> Name("s", i)]
      newBasicVariables == [i \in 1..numConstraints |-> Name("s", i)]
      cols == numVars + numConstraints + 1
      newSimplexTable ==
        [i \in 1..numConstraints |->
           constraints[i]
             \o [j \in 1..numConstraints |-> IF i = j THEN One ELSE Zero]
             \o <<rhsValues[i]>>]
          \o <<Zeros(cols), Zeros(cols)>>
  IN  TheOne({ Built(computed, newVariables, newCj, newBasicVariables) :
               computed \in {computeZjAndCjMinusZj(newSimplexTable, newBasicVariables,
                                                   newCj, newVariables, scr)} })

createInitialPhase1Table(p) ==
  LET types == p.constraintTypes
      numOriginalVars == Len(p.objective)
      numConstraints == Len(p.constraintsMatrix)
      slackCount == Cardinality({r \in DOMAIN types : types[r] = LE})
      surplusCount == Cardinality({r \in DOMAIN types : types[r] = GE})
      artificialCount == Cardinality({r \in DOMAIN types : types[r] \in {GE, EQ}})
      allVars == [i \in 1..numOriginalVars |-> Name("x", i)]
                   \o [i \in 1..slackCount |-> Name("s", i)]
                   \o [i \in 1..surplusCount |-> Name("e", i)]
                   \o [i \in 1..artificialCount |-> Name("a", i)]
      phase1Objective == Zeros(numOriginalVars) \o Zeros(slackCount + surplusCount)
                           \o [i \in 1..artificialCount |-> One]
      \* the running indexes at row i (1-based column of the row's own variable)
      slackIndex(i) == CountBefore(types, {LE}, i) + 1
      surplusIndex(i) == CountBefore(types, {GE}, i) + 1
      artificialIndex(i) == CountBefore(types, {GE, EQ}, i) + 1
      row(i) ==
        p.constraintsMatrix[i]
          \o [j \in 1..slackCount |->
                IF types[i] = LE /\ j = slackIndex(i) THEN One ELSE Zero]
          \o [j \in 1..surplusCount |->
                IF types[i] = GE /\ j = surplusIndex(i) THEN R(-1) ELSE Zero]
          \o [j \in 1..artificialCount |->
                IF types[i] \in {GE, EQ} /\ j = artificialIndex(i) THEN One ELSE Zero]
      newBasicVariables ==
        [i \in 1..numConstraints |->
           IF types[i] = LE THEN Name("s", slackIndex(i))
           ELSE Name("a", artificialIndex(i))]
      cols == Len(allVars) + 1
      newSimplexTable ==
        [i \in 1..numConstraints |-> row(i) \o <<p.rhs[i]>>]
          \o <<Zeros(cols), Zeros(cols)>>
  IN  TheOne({ Built(computed, allVars, phase1Objective, newBasicVariables) :
               computed \in {computeZjAndCjMinusZj(newSimplexTable, newBasicVariables,
                                                   phase1Objective, allVars, "Phase1")} })

\* PositionsFrom keeping every position, whatever the letter
RECURSIVE PositionsFromAll(_, _, _)
PositionsFromAll(s, kinds, i) ==
  IF i > Len(s) THEN <<>>
  ELSE <<i>> \o PositionsFromAll(s, kinds, i + 1)

\* the positions from i on of the names whose letter is in kinds, in order
RECURSIVE PositionsFrom(_, _, _)
PositionsFrom(s, kinds, i) ==
  IF i > Len(s) THEN <<>>
  ELSE (IF s[i][1] \in kinds THEN <<i>> ELSE <<>>) \o PositionsFrom(s, kinds, i + 1)

\* createPhase2Table keeping the sign of the objective when minimizing
createPhase2TableKeepSign(originalObjective, phase1Table, phase1Variables, phase1BasicVariables, optType) ==
  LET \* the columns that are not artificialIndices, and their names
      keptCols == PositionsFrom(phase1Variables, {"x", "s", "e"}, 1)
      filteredVariables == [k \in 1..Len(keptCols) |-> phase1Variables[keptCols[k]]]
      \* originalIndex at position i: the number of "x" variables before it
      originalIndex(i) ==
        Cardinality({k \in 1..(i - 1) : StartsWith(filteredVariables[k], "x")}) + 1
      phase2Objective ==
        [i \in 1..Len(filteredVariables) |->
           IF StartsWith(filteredVariables[i], "x")
           THEN IF originalIndex(i) <= Len(originalObjective)
                THEN originalObjective[originalIndex(i)]
                ELSE Zero
           ELSE Zero]
      constraintRows == SubSeq(phase1Table, 1, Len(phase1Table) - 2)
      phase2Rows ==
        [i \in 1..Len(constraintRows) |->
           [j \in 1..Len(keptCols) |-> constraintRows[i][keptCols[j]]]
             \o <<constraintRows[i][Len(constraintRows[i])]>>]
      slacks == PositionsFrom(filteredVariables, {"s"}, 1)
      availableSlack == IF slacks = <<>> THEN Name("s", 1)
                        ELSE filteredVariables[slacks[1]]
      newBasicVariables ==
        [i \in 1..Len(phase1BasicVariables) |->
           IF StartsWith(phase1BasicVariables[i], "a") THEN availableSlack
           ELSE phase1BasicVariables[i]]
      cols == Len(filteredVariables) + 1
      phase2Table == phase2Rows \o <<Zeros(cols), Zeros(cols)>>
  IN  TheOne({ Built(computed, filteredVariables, phase2Objective, newBasicVariables) :
               computed \in {computeZjAndCjMinusZj(phase2Table, newBasicVariables,
                                                   phase2Objective, filteredVariables,
                                                   "Phase2")} })

createPhase2Table(originalObjective, phase1Table, phase1Variables, phase1BasicVariables, optType) ==
  LET \* the columns that are not artificialIndices, and their names
      keptCols == PositionsFrom(phase1Variables, {"x", "s", "e"}, 1)
      filteredVariables == [k \in 1..Len(keptCols) |-> phase1Variables[keptCols[k]]]
      \* originalIndex at position i: the number of "x" variables before it
      originalIndex(i) ==
        Cardinality({k \in 1..(i - 1) : StartsWith(filteredVariables[k], "x")}) + 1
      phase2Objective ==
        [i \in 1..Len(filteredVariables) |->
           IF StartsWith(filteredVariables[i], "x")
           THEN IF originalIndex(i) <= Len(originalObjective)
                THEN IF optType = "Minimize"
                     THEN RNeg(originalObjective[originalIndex(i)])
                     ELSE originalObjective[originalIndex(i)]
                ELSE Zero
           ELSE Zero]
      constraintRows == SubSeq(phase1Table, 1, Len(phase1Table) - 2)
      phase2Rows ==
        [i \in 1..Len(constraintRows) |->
           [j \in 1..Len(keptCols) |-> constraintRows[i][keptCols[j]]]
             \o <<constraintRows[i][Len(constraintRows[i])]>>]
      slacks == PositionsFrom(filteredVariables, {"s"}, 1)
      availableSlack == IF slacks = <<>> THEN Name("s", 1)
                        ELSE filteredVariables[slacks[1]]
      newBasicVariables ==
        [i \in 1..Len(phase1BasicVariables) |->
           IF StartsWith(phase1BasicVariables[i], "a") THEN availableSlack
           ELSE phase1BasicVariables[i]]
      cols == Len(filteredVariables) + 1
      phase2Table == phase2Rows \o <<Zeros(cols), Zeros(cols)>>
  IN  TheOne({ Built(computed, filteredVariables, phase2Objective, newBasicVariables) :
               computed \in {computeZjAndCjMinusZj(phase2Table, newBasicVariables,
                                                   phase2Objective, filteredVariables,
                                                   "Phase2")} })

\* formatEquations of a screen: the objective line, the constraint lines (one line
\* of text on Phase 2) and the non-negativity lines.  A term is <<sign, |coeff|,
\* variable>>, coefficients below 1e-10 in magnitude give no term; the digits
\* decimalToFraction writes for a number are not modelled, the number stands for
\* them.  The single-phase screens write every constraint with "<=".
formatEquations(p, scr, objectiveRow, allVars) ==
  LET Terms(coeffs, names) ==
        LET f[i \in 0..Len(coeffs)] ==
              IF i = 0 THEN <<>>
              ELSE IF AbsLtEps10(coeffs[i]) THEN f[i - 1]
              ELSE Append(f[i - 1],
                          <<IF RLe(Zero, coeffs[i]) THEN "+" ELSE "-", RAbs(coeffs[i]),
                            names[i]>>)
        IN  f[Len(coeffs)]
      xs == [j \in 1..Len(p.objective) |-> Name("x", j)]
      head == IF scr = "Phase1" THEN "Minimize W ="
              ELSE IF p.optType = "Maximize" THEN "Maximize Z =" ELSE "Minimize Z ="
      constraintEquations ==
        IF scr = "Phase2"
        THEN <<"Subject to: Constraints from Phase I (artificial variables removed)">>
        ELSE [i \in 1..Len(p.constraintsMatrix) |->
                <<Terms(p.constraintsMatrix[i], xs),
                  IF scr = "Phase1" THEN p.constraintTypes[i] ELSE LE, p.rhs[i]>>]
      nonNegativity ==
        [k \in 1..Len(allVars) |-> <<allVars[k], ">= 0">>]
  IN  <<<<head, Terms(objectiveRow, allVars)>>>> \o constraintEquations \o nonNegativity

\* the constructor a screen's useEffect runs on the route parameters, with the
\* equations its formatEquations call sets
Construct(p) ==
  IF p.screen = "Phase1"
  THEN TheOne({ b @@ [equations |-> formatEquations(p, "Phase1", b.cj, b.vars)] :
                b \in {createInitialPhase1Table(p)} })
  ELSE createInitialSimplexTable(AdjustedObjective(p), p.constraintsMatrix, p.rhs,
                                 p.screen)
         @@ [equations |-> formatEquations(p, p.screen, p.objective,
                                           [j \in 1..Len(p.objective) |-> Name("x", j)])]

\* ------------------------------------------------------------ session state

VARIABLES
  problem,         \* route.params of the session
  screen,          \* the mounted solving screen
  simplexTable, variables, cj, basicVariables,
  enteringVar, leavingVar, iteration, message,
  phase1Complete,  \* Phase1.tsx only; FALSE on the other screens
  equations,       \* the problem formulation lines on screen
  initialState,    \* the copy kept for reset
  timers,          \* pending setTimeout(solve, 100) callbacks, oldest first
  budget,          \* step, reset and solve presses left on the mounted screen
  lastOp,          \* the handler that ran last
  resetClean,      \* no step or solve press since the last reset
  sincePress,      \* the number of step() presses since the last reset or
                   \* construction; -1 once a solve press came in between
  ended,           \* <<>>, or <<e>> when the handler that ran last was a solve call
                   \* that ended its run: e.table the table it stopped on, e.pivots
                   \* the pivots of the run
  replay,          \* a second copy of the mounted component on which only the
                   \* step() button is pressed, until a message shows
  firstSteps,      \* the states of that copy after its first presses
  tainted,         \* a reset came while callbacks were pending, and no run has
                   \* started from an idle queue since
  pivotAt          \* the <<row, column>> of the last bare performPivot call

vars == <<problem, screen, simplexTable, variables, cj, basicVariables, enteringVar,
          leavingVar, iteration, message, phase1Complete, equations, initialState, timers,
          budget, lastOp, resetClean, sincePress, ended, replay, firstSteps,
          tainted, pivotAt>>

NoMessage == "null"
maxIterations == 100

MsgOptimal(scr) ==
  IF scr = "Phase2" THEN "Phase 2 complete. Optimal solution found."
  ELSE "Optimal solution reached."
MsgFeasible == "Phase 1 complete. Feasible solution found. Ready for Phase 2."
MsgInfeasible == "Phase 1 complete. Original problem is infeasible."
MsgUnbounded(scr) ==
  IF scr = "Phase1" THEN "Phase 1 problem is unbounded."
  ELSE IF scr = "Phase2" THEN "Phase 2 problem is unbounded."
  ELSE "Problem is unbounded (no valid leaving variable)."
PivotErrorText(scr) ==
  IF IsAlt(scr) THEN "Pivot value is zero." ELSE "Pivot value is too close to zero."
MsgPivotError(scr) == "Error during pivot: " \o PivotErrorText(scr)
MsgAutoPivotError(scr) == "Error during automatic pivot: " \o PivotErrorText(scr)
MsgConstAssign == "Error during automatic pivot: Assignment to constant variable."
MsgLimit == "Stopped: reached maximum automatic iterations limit."

\* the component state the handlers read and set
Cur ==
  [simplexTable |-> simplexTable, variables |-> variables, cj |-> cj,
   basicVariables |-> basicVariables, enteringVar |-> enteringVar,
   leavingVar |-> leavingVar, iteration |-> iteration, message |-> message,
   phase1Complete |-> phase1Complete, equations |-> equations]

\* the Zj entry under the RHS column
ObjectiveValue(table) == table[Len(table) - 1][Len(table[1])]

\* AtOptimal taking every Phase 1 optimum for feasible
AtOptimalUnchecked(st, table, scr) ==
  IF scr = "Phase1"
  THEN [st EXCEPT !.enteringVar = NoVar, !.leavingVar = NoVar,
                  !.message = MsgFeasible, !.phase1Complete = TRUE]
  ELSE [st EXCEPT !.enteringVar = NoVar, !.leavingVar = NoVar,
                  !.message = MsgOptimal(scr)]

\* the state after the handlers' optimal branch (Phase 1: the feasibility check)
AtOptimal(st, table, scr) ==
  IF scr = "Phase1"
  THEN IF AbsLtEps10(ObjectiveValue(table))
       THEN [st EXCEPT !.enteringVar = NoVar, !.leavingVar = NoVar,
                       !.message = MsgFeasible, !.phase1Complete = TRUE]
       ELSE [st EXCEPT !.enteringVar = NoVar, !.leavingVar = NoVar,
                       !.message = MsgInfeasible]
  ELSE [st EXCEPT !.enteringVar = NoVar, !.leavingVar = NoVar,
                  !.message = MsgOptimal(scr)]

\* a ?? b
Coalesce(a, b) == IF a = NoVar THEN b ELSE a

\* the pivot of the handlers: performPivot at the selected position, the basis
\* with the entering variable in the leaving row, and the derived rows recomputed
PivotStep(table, basics, st, sel, scr) ==
  TheOne({ [computed |-> computeZjAndCjMinusZj(newTable, newBasics, st.cj,
                                                st.variables, scr),
            newBasics |-> newBasics] :
           newTable \in {performPivot(table, sel.leavingRowIdx, sel.enteringIndex, scr)},
           newBasics \in {[basics EXCEPT
                             ![sel.leavingRowIdx] = st.variables[sel.enteringIndex]]} })

\* AfterPivot counting two iterations for a pivot
AfterPivotTwice(st, sel, p, scr) ==
  LET pivoted == [st EXCEPT
                    !.simplexTable = p.computed.table,
                    !.basicVariables = p.newBasics,
                    !.enteringVar = Coalesce(p.computed.enteringVar,
                                             st.variables[sel.enteringIndex]),
                    !.leavingVar = Coalesce(p.computed.leavingVar,
                                            st.basicVariables[sel.leavingRowIdx]),
                    !.iteration = st.iteration + 2]
      cjZjNow == CjZjVars(p.computed.table, Len(st.variables))
  IN  IF NoEntering(BestVal(cjZjNow, scr), scr)
      THEN AtOptimal(pivoted, p.computed.table, scr)
      ELSE [pivoted EXCEPT !.message = NoMessage]

\* handleNextIteration once the pivot is done
AfterPivot(st, sel, p, scr) ==
  LET pivoted == [st EXCEPT
                    !.simplexTable = p.computed.table,
                    !.basicVariables = p.newBasics,
                    !.enteringVar = Coalesce(p.computed.enteringVar,
                                             st.variables[sel.enteringIndex]),
                    !.leavingVar = Coalesce(p.computed.leavingVar,
                                            st.basicVariables[sel.leavingRowIdx]),
                    !.iteration = st.iteration + 1]
      cjZjNow == CjZjVars(p.computed.table, Len(st.variables))
  IN  IF NoEntering(BestVal(cjZjNow, scr), scr)
      THEN AtOptimal(pivoted, p.computed.table, scr)
      ELSE [pivoted EXCEPT !.message = NoMessage]

\* stepOn counting an iteration also when no variable can enter
stepOnCounting(st, sel, scr) ==
  IF NoEntering(sel.best, scr)
  THEN [AtOptimal(st, st.simplexTable, scr) EXCEPT !.iteration = st.iteration + 1]
  ELSE IF sel.leavingRowIdx = 0
  THEN [st EXCEPT !.enteringVar = st.variables[sel.enteringIndex], !.leavingVar = NoVar,
                  !.message = MsgUnbounded(scr)]
  ELSE IF PivotThrows(st.simplexTable[sel.leavingRowIdx][sel.enteringIndex], scr)
  THEN [st EXCEPT !.message = MsgPivotError(scr)]
  ELSE TheOne({ AfterPivot(st, sel, p, scr) :
                p \in {PivotStep(st.simplexTable, st.basicVariables, st, sel, scr)} })

\* stepOn counting the iteration of a pivot that threw
stepOnThrowCounted(st, sel, scr) ==
  IF NoEntering(sel.best, scr) THEN AtOptimal(st, st.simplexTable, scr)
  ELSE IF sel.leavingRowIdx = 0
  THEN [st EXCEPT !.enteringVar = st.variables[sel.enteringIndex], !.leavingVar = NoVar,
                  !.message = MsgUnbounded(scr)]
  ELSE IF PivotThrows(st.simplexTable[sel.leavingRowIdx][sel.enteringIndex], scr)
  THEN [st EXCEPT !.message = MsgPivotError(scr), !.iteration = st.iteration + 1]
  ELSE TheOne({ AfterPivot(st, sel, p, scr) :
                p \in {PivotStep(st.simplexTable, st.basicVariables, st, sel, scr)} })

\* stepOn leaving the leaving variable as it is when it reports unbounded
stepOnLeavingKept(st, sel, scr) ==
  IF NoEntering(sel.best, scr) THEN AtOptimal(st, st.simplexTable, scr)
  ELSE IF sel.leavingRowIdx = 0
  THEN [st EXCEPT !.enteringVar = st.variables[sel.enteringIndex],
                  !.message = MsgUnbounded(scr)]
  ELSE IF PivotThrows(st.simplexTable[sel.leavingRowIdx][sel.enteringIndex], scr)
  THEN [st EXCEPT !.message = MsgPivotError(scr)]
  ELSE TheOne({ AfterPivot(st, sel, p, scr) :
                p \in {PivotStep(st.simplexTable, st.basicVariables, st, sel, scr)} })

\* handleNextIteration after setMessage(null), on the selection sel
stepOn(st, sel, scr) ==
  IF NoEntering(sel.best, scr) THEN AtOptimal(st, st.simplexTable, scr)
  ELSE IF sel.leavingRowIdx = 0
  THEN [st EXCEPT !.enteringVar = st.variables[sel.enteringIndex], !.leavingVar = NoVar,
                  !.message = MsgUnbounded(scr)]
  ELSE IF PivotThrows(st.simplexTable[sel.leavingRowIdx][sel.enteringIndex], scr)
  THEN [st EXCEPT !.message = MsgPivotError(scr)]
  ELSE TheOne({ AfterPivot(st, sel, p, scr) :
                p \in {PivotStep(st.simplexTable, st.basicVariables, st, sel, scr)} })

handleNextIteration(st0, scr) ==
  IF Len(st0.simplexTable) < 2 THEN [st0 EXCEPT !.message = NoMessage]
  ELSE TheOne({ stepOn(st, sel, scr) :
                st \in {[st0 EXCEPT !.message = NoMessage]},
                sel \in {Select(st0.simplexTable, Len(st0.variables), scr)} })

\* initialState as the constructors store it.  Its equations are equations.slice()
\* of the render whose effect runs the constructor: setEquations has been called
\* but takes effect with the next render, so the copy is the useState value [].
InitialOf(b) == [table |-> b.table, vars |-> b.vars, cj |-> b.cj, basics |-> b.basics,
                 iteration |-> 1, equations |-> <<>>]

handleReset(st, init, scr) ==
  TheOne({ [st EXCEPT !.simplexTable = computed.table, !.variables = init.vars,
                      !.cj = init.cj, !.basicVariables = init.basics, !.iteration = 1,
                      !.message = NoMessage, !.phase1Complete = FALSE,
                      !.equations = init.equations,
                      !.enteringVar = computed.enteringVar,
                      !.leavingVar = computed.leavingVar] :
           computed \in {computeZjAndCjMinusZj(init.table, init.basics, init.cj,
                                               init.vars, scr)} })

\* solveOn without the test of the iteration cap
solveOnUncapped(st, currentTable, currentBasics, currentIteration, sel, scr) ==
  IF NoEntering(sel.best, scr)
  THEN [st |-> AtOptimal(st, currentTable, scr), timer |-> <<>>]
  ELSE IF sel.leavingRowIdx = 0
  THEN [st |-> [st EXCEPT !.message = MsgUnbounded(scr),
                          !.enteringVar = st.variables[sel.enteringIndex],
                          !.leavingVar = NoVar],
        timer |-> <<>>]
  ELSE IF PivotThrows(currentTable[sel.leavingRowIdx][sel.enteringIndex], scr)
  THEN [st |-> [st EXCEPT !.message = MsgAutoPivotError(scr)], timer |-> <<>>]
  ELSE TheOne({ [st |-> [st EXCEPT !.simplexTable = p.computed.table,
                                   !.basicVariables = p.newBasics,
                                   !.iteration = currentIteration + 1],
                 timer |-> <<[table |-> p.computed.table, basics |-> p.newBasics,
                              iteration |-> currentIteration + 1]>>] :
                p \in {PivotStep(currentTable, currentBasics, st, sel, scr)} })

\* solveOn leaving the iteration counter on screen one pivot behind
solveOnStaleCount(st, currentTable, currentBasics, currentIteration, sel, scr) ==
  IF currentIteration > maxIterations
  THEN [st |-> [st EXCEPT !.message = MsgLimit], timer |-> <<>>]
  ELSE IF NoEntering(sel.best, scr)
  THEN [st |-> AtOptimal(st, currentTable, scr), timer |-> <<>>]
  ELSE IF sel.leavingRowIdx = 0
  THEN [st |-> [st EXCEPT !.message = MsgUnbounded(scr),
                          !.enteringVar = st.variables[sel.enteringIndex],
                          !.leavingVar = NoVar],
        timer |-> <<>>]
  ELSE IF PivotThrows(currentTable[sel.leavingRowIdx][sel.enteringIndex], scr)
  THEN [st |-> [st EXCEPT !.message = MsgAutoPivotError(scr)], timer |-> <<>>]
  ELSE TheOne({ [st |-> [st EXCEPT !.simplexTable = p.computed.table,
                                   !.basicVariables = p.newBasics,
                                   !.iteration = currentIteration],
                 timer |-> <<[table |-> p.computed.table, basics |-> p.newBasics,
                              iteration |-> currentIteration + 1]>>] :
                p \in {PivotStep(currentTable, currentBasics, st, sel, scr)} })

\* one call of the deferred solve(currentTable, currentBasics, currentIteration) of
\* part_002, Phase1.tsx and Phase2.tsx: the state it leaves and the callback it
\* schedules (timer: <<>> or one entry)
solveOn(st, currentTable, currentBasics, currentIteration, sel, scr) ==
  IF currentIteration > maxIterations
  THEN [st |-> [st EXCEPT !.message = MsgLimit], timer |-> <<>>]
  ELSE IF NoEntering(sel.best, scr)
  THEN [st |-> AtOptimal(st, currentTable, scr), timer |-> <<>>]
  ELSE IF sel.leavingRowIdx = 0
  THEN [st |-> [st EXCEPT !.message = MsgUnbounded(scr),
                          !.enteringVar = st.variables[sel.enteringIndex],
                          !.leavingVar = NoVar],
        timer |-> <<>>]
  ELSE IF PivotThrows(currentTable[sel.leavingRowIdx][sel.enteringIndex], scr)
  THEN [st |-> [st EXCEPT !.message = MsgAutoPivotError(scr)], timer |-> <<>>]
  ELSE TheOne({ [st |-> [st EXCEPT !.simplexTable = p.computed.table,
                                   !.basicVariables = p.newBasics,
                                   !.iteration = currentIteration + 1],
                 timer |-> <<[table |-> p.computed.table, basics |-> p.newBasics,
                              iteration |-> currentIteration + 1]>>] :
                p \in {PivotStep(currentTable, currentBasics, st, sel, scr)} })

solve(st, currentTable, currentBasics, currentIteration, scr) ==
  TheOne({ solveOn(st, currentTable, currentBasics, currentIteration, sel, scr) :
           sel \in {Select(currentTable, Len(st.variables), scr)} })

\* handleSolveToOptimal of part_002, Phase1.tsx and Phase2.tsx: the first solve call
handleSolveToOptimal(st0, scr) ==
  LET st == [st0 EXCEPT !.message = NoMessage]
  IN  solve(st, st.simplexTable, st.basicVariables, st.iteration, scr)

\* handleSolveToOptimal of the earlier variant (part_003): a synchronous loop over
\* local mirrors of simplexTable and basicVariables.  The mirror assigns to the
\* const bindings of useState: a TypeError in ECMAScript, caught by the loop's own
\* catch (mirror = FALSE); mirror = TRUE is a build that lets the assignment
\* through, as the comments in the source intend.
\* One pass of the loop body after the safety check: the state it leaves (the
\* mirrors equal st.simplexTable and st.basicVariables) and whether it continues.
altSolveOn(st, sel, mirror) ==
  IF NoEntering(sel.best, "Alt")
  THEN [st |-> [st EXCEPT !.message = MsgOptimal("Alt"), !.enteringVar = NoVar,
                          !.leavingVar = NoVar],
        continue |-> FALSE]
  ELSE IF sel.leavingRowIdx = 0
  THEN [st |-> [st EXCEPT !.message = MsgUnbounded("Alt"),
                          !.enteringVar = st.variables[sel.enteringIndex],
                          !.leavingVar = NoVar],
        continue |-> FALSE]
  ELSE IF PivotThrows(st.simplexTable[sel.leavingRowIdx][sel.enteringIndex], "Alt")
  THEN [st |-> [st EXCEPT !.message = MsgAutoPivotError("Alt")], continue |-> FALSE]
  ELSE TheOne({ [st |-> [st EXCEPT !.simplexTable = p.computed.table,
                                   !.basicVariables = p.newBasics,
                                   !.iteration = st.iteration + 1,
                                   !.message = IF mirror THEN st.message
                                               ELSE MsgConstAssign],
                 continue |-> mirror] :
                p \in {PivotStep(st.simplexTable, st.basicVariables, st, sel, "Alt")} })

altSolvePass(st, mirror) ==
  TheOne({ altSolveOn(st, sel, mirror) :
           sel \in {Select(st.simplexTable, Len(st.variables), "Alt")} })

\* one trip of while (true): r.safety is the counter after safety++, r.continue
\* is FALSE once the loop has reached a break
altSolveTrip(r0, mirror) ==
  TheOne({ IF ~r.continue THEN r
           ELSE IF r.safety > maxIterations
           THEN [st |-> [r.st EXCEPT !.message = MsgLimit], continue |-> FALSE,
                 safety |-> r.safety]
           ELSE TheOne({ [st |-> q.st, continue |-> q.continue,
                          safety |-> r.safety + 1] :
                         q \in {altSolvePass(r.st, mirror)} }) :
           r \in {r0} })

\* 2^k trips of the loop in a row (a trip after a break changes nothing)
RECURSIVE altSolveRun(_, _, _)
altSolveRun(r0, mirror, k) ==
  IF r0.continue
  THEN IF k = 0 THEN altSolveTrip(r0, mirror)
       ELSE altSolveRun(altSolveRun(r0, mirror, k - 1), mirror, k - 1)
  ELSE r0

\* 2^LoopDepth exceeds maxIterations + 1, the trips the loop can make
LoopDepth == 7

altHandleSolveToOptimal(st0, mirror) ==
  altSolveRun([st |-> [st0 EXCEPT !.message = NoMessage], continue |-> TRUE,
               safety |-> 1], mirror, LoopDepth).st

\* handleProceedToPhase2 followed by the Phase 2 screen's useEffect
Phase2Built(p, st) ==
  TheOne({ b @@ [equations |-> formatEquations(p, "Phase2", b.cj, b.vars)] :
           b \in {createPhase2Table(p.objective, st.simplexTable, st.variables,
                                    st.basicVariables, p.optType)} })

\* the tableau, basis, iteration counter and message of a component state
Outcome(st) ==
  [simplexTable |-> st.simplexTable, basicVariables |-> st.basicVariables,
   iteration |-> st.iteration, message |-> st.message]

\* the component state a constructor's result b mounts
MountedState(b) ==
  [simplexTable |-> b.table, variables |-> b.vars, cj |-> b.cj,
   basicVariables |-> b.basics, enteringVar |-> b.enteringVar,
   leavingVar |-> b.leavingVar, iteration |-> 1, message |-> NoMessage,
   phase1Complete |-> FALSE, equations |-> b.equations]

\* ------------------------------------------------------------ the state machine

MaxPresses == 5
MaxCapPresses == 1
MaxLongPresses == 1
MaxReplay == 130

\* the button presses (step, reset, solve) a run of the model gives each screen
PressesFor(p) ==
  IF p \in CyclingProblems THEN MaxCapPresses
  ELSE IF p \in HundredProblems \cup {Cube7} \cup FormProblems THEN MaxLongPresses
  ELSE MaxPresses

\* the component state a constructor leaves
Mounted(b) ==
  /\ simplexTable = b.table
  /\ variables = b.vars
  /\ cj = b.cj
  /\ basicVariables = b.basics
  /\ enteringVar = b.enteringVar
  /\ leavingVar = b.leavingVar
  /\ iteration = 1
  /\ message = NoMessage
  /\ phase1Complete = FALSE
  /\ equations = b.equations
  /\ initialState = InitialOf(b)

InitWith(ps) ==
  /\ problem \in ps
  /\ screen = problem.screen
  /\ \E b \in {Construct(problem)} :
       /\ Mounted(b)
       /\ replay = MountedState(b)
  /\ firstSteps = <<>>
  /\ timers = <<>>
  /\ budget = PressesFor(problem)
  /\ lastOp = "mount"
  /\ resetClean = FALSE
  /\ sincePress = 0
  /\ ended = <<>>
  /\ tainted = FALSE
  /\ pivotAt = <<0, 0>>

Init == InitWith(Problems)
InitCap == InitWith(CyclingProblems)
InitHundred == InitWith(Problems \cup HundredProblems)
InitCube == InitWith(Problems \cup {Cube7})
InitForm == InitWith(Problems \cup FormProblems)
InitNear == InitWith(Problems \cup NearTieProblems)

\* the handlers' writes to the component state
Commit(st) ==
  /\ simplexTable' = st.simplexTable
  /\ variables' = st.variables
  /\ cj' = st.cj
  /\ basicVariables' = st.basicVariables
  /\ enteringVar' = st.enteringVar
  /\ leavingVar' = st.leavingVar
  /\ iteration' = st.iteration
  /\ message' = st.message
  /\ phase1Complete' = st.phase1Complete
  /\ equations' = st.equations

\* the second copy has been stepped to its message, or MaxReplay times
Replayed == replay.message # NoMessage \/ replay.iteration > MaxReplay

\* the "Next Iteration" button on the second copy
ReplayStep ==
  /\ ~Replayed
  /\ \E st \in {handleNextIteration(replay, screen)} :
       /\ replay' = st
       /\ firstSteps' = IF Len(firstSteps) < MaxPresses THEN Append(firstSteps, st)
                        ELSE firstSteps
  /\ UNCHANGED <<problem, screen, simplexTable, variables, cj, basicVariables,
                 enteringVar, leavingVar, iteration, message, phase1Complete, equations,
                 initialState, timers, budget, lastOp, resetClean, sincePress,
                 ended, tainted, pivotAt>>

Press(op) ==
  /\ Replayed
  /\ budget > 0
  /\ budget' = budget - 1
  /\ lastOp' = op

\* the "Next Iteration" button
Step ==
  /\ Press("step")
  /\ \E st \in {handleNextIteration(Cur, screen)} : Commit(st)
  /\ resetClean' = FALSE
  /\ sincePress' = IF sincePress >= 0 THEN sincePress + 1 ELSE sincePress
  /\ ended' = <<>>
  /\ UNCHANGED <<problem, screen, initialState, timers, replay, firstSteps,
                 tainted, pivotAt>>

\* the "Reset" button
Reset ==
  /\ Press("reset")
  /\ \E st \in {handleReset(Cur, initialState, screen)} : Commit(st)
  /\ resetClean' = TRUE
  /\ sincePress' = 0
  /\ ended' = <<>>
  /\ tainted' = (tainted \/ timers # <<>>)
  /\ UNCHANGED <<problem, screen, initialState, timers, replay, firstSteps,
                 pivotAt>>

\* the callback a solve call scheduled, with the pivots of its run so far
Chained(timer, n) ==
  [i \in DOMAIN timer |->
     [table |-> timer[i].table, basics |-> timer[i].basics,
      iteration |-> timer[i].iteration, pivots |-> n]]

\* the run's end when the solve call on currentTable scheduled nothing
EndOf(timer, currentTable, n) ==
  IF timer = <<>> THEN <<[table |-> currentTable, pivots |-> n]>> ELSE <<>>

\* the "Solve to Optimal" button of part_002, Phase1.tsx and Phase2.tsx
SolvePress ==
  /\ ~IsAlt(screen)
  /\ Press("solve")
  /\ \E r \in {handleSolveToOptimal(Cur, screen)} :
         /\ Commit(r.st)
         /\ timers' = timers \o Chained(r.timer, 1)
         /\ ended' = EndOf(r.timer, simplexTable, 0)
  /\ resetClean' = FALSE
  /\ sincePress' = -1
  /\ tainted' = (tainted /\ timers # <<>>)
  /\ UNCHANGED <<problem, screen, initialState, replay, firstSteps, pivotAt>>

\* a pending setTimeout callback runs; equal delays run in the order they were set
TimerFire ==
  /\ timers # <<>>
  /\ \E h \in {Head(timers)} :
       \E r \in {solve(Cur, h.table, h.basics, h.iteration, screen)} :
         /\ Commit(r.st)
         /\ timers' = Tail(timers) \o Chained(r.timer, h.pivots + 1)
         /\ ended' = EndOf(r.timer, h.table, h.pivots)
  /\ lastOp' = "timer"
  /\ UNCHANGED <<problem, screen, initialState, budget, resetClean, sincePress,
                 replay, firstSteps, tainted, pivotAt>>

\* the "Solve to Optimal" button of part_003
AltSolve(mirror) ==
  /\ IsAlt(screen)
  /\ Press("solve")
  /\ \E st \in {altHandleSolveToOptimal(Cur, mirror)} :
         /\ Commit(st)
         /\ ended' = <<[table |-> st.simplexTable, pivots |-> st.iteration - iteration]>>
  /\ resetClean' = FALSE
  /\ sincePress' = -1
  /\ UNCHANGED <<problem, screen, initialState, timers, replay, firstSteps,
                 tainted, pivotAt>>

AltSolveThrow == AltSolve(FALSE)
AltSolveMirror == AltSolve(TRUE)

\* the "Proceed to Phase 2" button while phase1Complete is unset: an early return
\* (the button is not counted in budget: it navigates once)
ProceedRefused ==
  /\ Replayed
  /\ screen = "Phase1"
  /\ ~phase1Complete
  /\ lastOp' = "refused"
  /\ ended' = <<>>
  /\ UNCHANGED <<problem, screen, simplexTable, variables, cj, basicVariables,
                 enteringVar, leavingVar, iteration, message, phase1Complete, equations,
                 initialState, timers, budget, resetClean, sincePress, replay,
                 firstSteps, tainted, pivotAt>>

\* the "Proceed to Phase 2" button: navigation to Phase2 with the current Phase 1
\* table, variables and basis; the Phase 2 screen mounts and builds its table.
\* The Phase 1 callbacks still pending write to the Phase 1 component only.
ProceedToPhase2 ==
  /\ Replayed
  /\ screen = "Phase1"
  /\ phase1Complete
  /\ lastOp' = "proceed"
  /\ screen' = "Phase2"
  /\ \E b \in {Phase2Built(problem, Cur)} :
         /\ simplexTable' = b.table
         /\ variables' = b.vars
         /\ cj' = b.cj
         /\ basicVariables' = b.basics
         /\ enteringVar' = b.enteringVar
         /\ leavingVar' = b.leavingVar
         /\ equations' = b.equations
         /\ initialState' = InitialOf(b)
         /\ replay' = MountedState(b)
  /\ iteration' = 1
  /\ message' = NoMessage
  /\ phase1Complete' = FALSE
  /\ timers' = <<>>
  /\ resetClean' = FALSE
  /\ sincePress' = 0
  /\ ended' = <<>>
  /\ tainted' = FALSE
  /\ firstSteps' = <<>>
  /\ budget' = PressesFor(problem)
  /\ UNCHANGED <<problem, pivotAt>>

Next ==
  \/ ReplayStep
  \/ Step
  \/ Reset
  \/ SolvePress
  \/ TimerFire
  \/ AltSolveThrow
  \/ AltSolveMirror
  \/ ProceedRefused
  \/ ProceedToPhase2

Spec == Init /\ [][Next]_vars
SpecCap == InitCap /\ [][Next]_vars
SpecHundred == InitHundred /\ [][Next]_vars
SpecCube == InitCube /\ [][Next]_vars
SpecForm == InitForm /\ [][Next]_vars
SpecNear == InitNear /\ [][Next]_vars

\* ------------------------------------------------------------ performPivot alone

\* bare performPivot calls on small tables: two constraint rows and the two
\* derived rows, three columns, entries from PivotEntries
MaxPivots == 2
PivotEntries == { R(-1), Zero, R(2) }
PivotRow == [1..3 -> PivotEntries]
PivotTables == { <<r1, r2, Zeros(3), Zeros(3)>> : r1 \in PivotRow, r2 \in PivotRow }

InitPivot ==
  /\ problem = ScenarioA("Solution")
  /\ screen \in {"Solution", "Alt"}
  /\ simplexTable \in PivotTables
  /\ variables = <<Name("x", 1), Name("x", 2)>>
  /\ cj = Zeros(2)
  /\ basicVariables = <<NoVar, NoVar>>
  /\ enteringVar = NoVar
  /\ leavingVar = NoVar
  /\ iteration = 1
  /\ message = NoMessage
  /\ phase1Complete = FALSE
  /\ equations = <<>>
  /\ initialState = [table |-> simplexTable, vars |-> variables, cj |-> cj,
                     basics |-> basicVariables, iteration |-> 1, equations |-> <<>>]
  /\ timers = <<>>
  /\ budget = MaxPivots
  /\ lastOp = "mount"
  /\ resetClean = FALSE
  /\ sincePress = 0
  /\ ended = <<>>
  /\ replay = Cur
  /\ firstSteps = <<>>
  /\ tainted = FALSE
  /\ pivotAt = <<0, 0>>

\* performPivot(simplexTable, r, c) returns
PivotApplied ==
  /\ budget > 0
  /\ \E r \in 1..(Len(simplexTable) - 2), c \in 1..Len(simplexTable[1]) :
       /\ ~PivotThrows(simplexTable[r][c], screen)
       /\ simplexTable' = performPivot(simplexTable, r, c, screen)
       /\ pivotAt' = <<r, c>>
  /\ budget' = budget - 1
  /\ lastOp' = "pivot"
  /\ UNCHANGED <<problem, screen, variables, cj, basicVariables, enteringVar,
                 leavingVar, iteration, message, phase1Complete, equations,
                 initialState,
                 timers, resetClean, sincePress, ended, replay, firstSteps, tainted>>

\* performPivot(simplexTable, r, c) throws
PivotThrown ==
  /\ budget > 0
  /\ \E r \in 1..(Len(simplexTable) - 2), c \in 1..Len(simplexTable[1]) :
       /\ PivotThrows(simplexTable[r][c], screen)
       /\ pivotAt' = <<r, c>>
  /\ budget' = budget - 1
  /\ lastOp' = "throw"
  /\ UNCHANGED <<problem, screen, simplexTable, variables, cj, basicVariables,
                 enteringVar, leavingVar, iteration, message, phase1Complete, equations,
                 initialState, timers, resetClean, sincePress, ended, replay,
                 firstSteps, tainted>>

NextPivot == PivotApplied \/ PivotThrown

SpecPivot == InitPivot /\ [][NextPivot]_vars

\* ------------------------------------------------------------ the try block alone

\* the try/catch of handleNextIteration around performPivot, entered with row r as
\* leavingRowIdx and column c as enteringIndex: the handler after its optimality
\* and ratio tests, on a selection that names that position
PivotAt(r, c) == [best |-> One, enteringIndex |-> c, leavingRowIdx |-> r]

TryPivot(r, c) ==
  /\ budget > 0
  /\ \E st \in {stepOn([Cur EXCEPT !.message = NoMessage], PivotAt(r, c), screen)} :
       Commit(st)
  /\ pivotAt' = <<r, c>>
  /\ budget' = budget - 1
  /\ UNCHANGED <<problem, screen, initialState, timers, resetClean, sincePress,
                 ended, replay, firstSteps, tainted>>

\* performPivot returns inside the try block
TryPivotDone ==
  \E r \in 1..(Len(simplexTable) - 2), c \in 1..Len(variables) :
    /\ ~PivotThrows(simplexTable[r][c], screen)
    /\ TryPivot(r, c)
    /\ lastOp' = "try-done"

\* performPivot throws inside the try block
TryPivotCaught ==
  \E r \in 1..(Len(simplexTable) - 2), c \in 1..Len(variables) :
    /\ PivotThrows(simplexTable[r][c], screen)
    /\ TryPivot(r, c)
    /\ lastOp' = "try-caught"

NextTry == TryPivotDone \/ TryPivotCaught

SpecTry == InitPivot /\ [][NextTry]_vars

\* ------------------------------------------------------------ properties

\* |x| < 1e-9
AbsLtEps9(x) ==
  IF Len(x) = 4 /\ x[1] = 0 THEN RLt(RAbs(Tiny(x)), R(100))
  ELSE IAbs(x[1]) <= (x[2] - 1) \div E9

\* column c of a table, over the constraint rows, is within 1e-9 of the identity
\* column of row r
IdentityColumn(table, r, c) ==
  \A i \in 1..(Len(table) - 2) :
    AbsLtEps9(RSub(table[i][c], IF i = r THEN One ELSE Zero))

\* C1: in every reachable state of a single-phase, Phase 1 or Phase 2 screen, for
\* each constraint row r the column of the variable basicVariables[r] has, over
\* the constraint rows, 1 in row r and 0 in every other row.
C1_BasisColumnsIdentity ==
  \A r \in 1..Len(basicVariables) :
    /\ IndexOf(variables, basicVariables[r]) # 0
    /\ \A i \in 1..(Len(simplexTable) - 2) :
         simplexTable[i][IndexOf(variables, basicVariables[r])]
           = IF i = r THEN One ELSE Zero

\* C2: for every table and every pivot position whose element performPivot
\* accepts, the returned table has, in the pivot column over the constraint rows,
\* 1 in the pivot row and 0 in every other row, within 1e-9.
C2_PivotColumnIdentity ==
  lastOp = "pivot" => IdentityColumn(simplexTable, pivotAt[1], pivotAt[2])

\* a pivot that changed another row's entry in the pivot column to 0
C2_Witness ==
  /\ lastOp = "pivot"
  /\ budget = 0
  /\ \E i \in 1..2 : i # pivotAt[1] /\ simplexTable[i][pivotAt[2]] = Zero
                     /\ simplexTable[i] # initialState.table[i]
                     /\ simplexTable[pivotAt[1]] # initialState.table[pivotAt[1]]

\* the table's Cj-Zj row offers no entering variable on the screen scr
Optimal(table, nVars, scr) == NoEntering(BestVal(CjZjVars(table, nVars), scr), scr)

\* C3: in every reachable Phase 1 state, under any interleaving of step(), reset()
\* and pending solve callbacks, phase1Complete is set only while the current table
\* is Phase 1 optimal with |W| < 1e-10, and it is unset while the infeasible
\* message shows.
C3_FlagOnlyWhileFeasibleOptimum ==
  screen = "Phase1" =>
    /\ phase1Complete =>
         /\ Optimal(simplexTable, Len(variables), "Phase1")
         /\ AbsLtEps10(ObjectiveValue(simplexTable))
    /\ message = MsgInfeasible => ~phase1Complete

\* C4: whenever Phase 1 ends optimal with objective value 0 the hand-off to
\* Phase 2 is enabled, and Phase 2, run from its initial table, ends in the optimal
\* or the unbounded outcome and never reports infeasible.
C4_FeasibleHandOffEndsPhase2 ==
  /\ screen = "Phase1" /\ message = MsgFeasible => phase1Complete
  /\ screen = "Phase2" => message # MsgInfeasible
  /\ screen = "Phase2" /\ ended # <<>> =>
       message \in {MsgOptimal("Phase2"), MsgUnbounded("Phase2")}

\* the saved initial table with its derived rows recomputed
InitialTable ==
  computeZjAndCjMinusZj(initialState.table, initialState.basics, initialState.cj,
                        initialState.vars, screen).table

\* C5: after reset(), and until the next step() or solve call, the table (derived
\* rows recomputed), basis, Cj, variable list and iteration counter equal the
\* saved initial state and the message is none: no callback of a solve call made
\* before the reset pivots or sets a message afterwards.
C5_ResetHoldsUntilNextCall ==
  resetClean =>
    /\ simplexTable = InitialTable
    /\ basicVariables = initialState.basics
    /\ cj = initialState.cj
    /\ variables = initialState.vars
    /\ iteration = initialState.iteration
    /\ message = NoMessage

\* what a step() call shows: table, basis, entering and leaving variable,
\* iteration counter and message
Shown(st) ==
  [simplexTable |-> st.simplexTable, basicVariables |-> st.basicVariables,
   enteringVar |-> st.enteringVar, leavingVar |-> st.leavingVar,
   iteration |-> st.iteration, message |-> st.message]

\* C6: reset() followed by n step() calls shows the same table, basis, entering
\* and leaving variable, iteration counter and message as the n-th step() call
\* after construction, whatever ran before the reset.
C6_ResetReplaysFirstSteps ==
  lastOp = "step" /\ sincePress >= 1 /\ sincePress <= Len(firstSteps) =>
    Shown(Cur) = Shown(firstSteps[sincePress])

\* C7: a step() on a table whose derived rows give no entering variable leaves
\* table, basis, Cj, variable list and iteration counter as they are, sets the
\* entering and the leaving variable to none and shows the optimal message (on
\* Phase 1 the phase-complete message).
C7_StepAtOptimumChangesNothing ==
  [][ (lastOp' = "step" /\ budget' = budget - 1
       /\ Optimal(simplexTable, Len(variables), screen))
      => /\ simplexTable' = simplexTable
         /\ basicVariables' = basicVariables
         /\ cj' = cj
         /\ variables' = variables
         /\ iteration' = iteration
         /\ enteringVar' = NoVar
         /\ leavingVar' = NoVar
         /\ message' \in (IF screen = "Phase1" THEN {MsgFeasible, MsgInfeasible}
                          ELSE {MsgOptimal(screen)}) ]_vars

\* step() was pressed more often than the table was pivoted, and the last press
\* found no entering variable
C7_Witness ==
  /\ lastOp = "step"
  /\ sincePress > iteration - 1
  /\ Optimal(simplexTable, Len(variables), screen)
  /\ enteringVar = NoVar
  /\ message = MsgOptimal(screen)

\* the messages a solve run ends with: optimal (on Phase 1 the phase-complete
\* messages), unbounded, pivot error, limit
EndMessages(scr) ==
  { MsgOptimal(scr), MsgFeasible, MsgInfeasible, MsgUnbounded(scr),
    MsgAutoPivotError(scr), MsgConstAssign, MsgLimit }

OptimalMessages(scr) ==
  IF scr = "Phase1" THEN {MsgFeasible, MsgInfeasible} ELSE {MsgOptimal(scr)}

\* C9: a solve run of part_002, Phase1.tsx or Phase2.tsx shows the limit message
\* only when the table it stopped on still has an entering variable, and shows
\* the optimal message whenever that table is optimal.
C9_LimitOnlyBeforeOptimum ==
  ~IsAlt(screen) /\ ended # <<>> =>
    /\ message = MsgLimit => ~Optimal(ended[1].table, Len(variables), screen)
    /\ Optimal(ended[1].table, Len(variables), screen) =>
         message \in OptimalMessages(screen)

\* every callback of the solve runs has run, the last of them ended its run, no
\* reset came in between, and the second copy has been stepped to its message
ChainDone ==
  /\ ~IsAlt(screen)
  /\ ended # <<>>
  /\ timers = <<>>
  /\ ~tainted
  /\ replay.message # NoMessage

NoPositiveColumn(table, nVars, scr) ==
  /\ ~Optimal(table, nVars, scr)
  /\ \A i \in 1..(Len(table) - 2) :
       ~GtEps10(table[i][EnteringIndex(CjZjVars(table, nVars), scr)])

\* the entering variable of a table that has one
EnteringOf(table, allVars, scr) ==
  allVars[EnteringIndex(CjZjVars(table, Len(allVars)), scr)]

\* C11: on the screens of part_002, Phase1.tsx and Phase2.tsx a step() call, and
\* the solve call that ends a run, show the unbounded message exactly when the
\* table they read has an entering variable and no constraint row with a
\* coefficient > 1e-10 in the entering column; they then name the entering
\* variable, set the leaving variable to none and leave table, basis and
\* iteration counter as they are.
C11_UnboundedExactlyWithoutPositiveColumn ==
  [][ ~IsAlt(screen) =>
        /\ (lastOp' = "step" /\ budget' = budget - 1) =>
             /\ message' = MsgUnbounded(screen)
                  <=> NoPositiveColumn(simplexTable, Len(variables), screen)
             /\ message' = MsgUnbounded(screen) =>
                  /\ enteringVar' = EnteringOf(simplexTable, variables, screen)
                  /\ leavingVar' = NoVar
                  /\ simplexTable' = simplexTable
                  /\ basicVariables' = basicVariables
                  /\ iteration' = iteration
        /\ (lastOp' \in {"solve", "timer"} /\ ended' # <<>>) =>
             /\ message' = MsgUnbounded(screen)
                  <=> NoPositiveColumn(ended'[1].table, Len(variables), screen)
             /\ message' = MsgUnbounded(screen) =>
                  /\ enteringVar' = EnteringOf(ended'[1].table, variables, screen)
                  /\ leavingVar' = NoVar
                  /\ simplexTable' = simplexTable
                  /\ basicVariables' = basicVariables
                  /\ iteration' = iteration ]_vars

\* C12: when the element at the position handed to performPivot has magnitude
\* below 1e-12, the try block of step() sets the message "Error during pivot: "
\* followed by the cause and commits nothing else: table, basis, Cj, variable
\* list and iteration counter are those before the step (part_002 variant).
C12_FailedPivotCommitsNothing ==
  [][ (~IsAlt(screen) /\ budget' = budget - 1
       /\ AbsLtEps12(simplexTable[pivotAt'[1]][pivotAt'[2]]))
      => /\ message' = "Error during pivot: Pivot value is too close to zero."
         /\ simplexTable' = simplexTable
         /\ basicVariables' = basicVariables
         /\ cj' = cj
         /\ variables' = variables
         /\ iteration' = iteration ]_vars

\* a pivot that went through, then one that threw
C12_Witness ==
  /\ screen = "Solution"
  /\ lastOp = "try-caught"
  /\ iteration = 2
  /\ simplexTable[pivotAt[1]][pivotAt[2]] = Zero
  /\ message = MsgPivotError(screen)

\* ------------------------------------------------------------ the scenarios

MaxScenarioSteps == 4

\* the "Next Iteration" button pressed until a message shows (at most k times)
RECURSIVE StepsToMessage(_, _, _)
StepsToMessage(st, scr, k) ==
  IF k = 0 \/ st.message # NoMessage THEN st
  ELSE StepsToMessage(handleNextIteration(st, scr), scr, k - 1)

\* the Phase 1 screen of problem p stepped to its message
Phase1End(p) == StepsToMessage(MountedState(Construct(p)), "Phase1", MaxScenarioSteps)

\* the mounted Phase 2 screen was built from that Phase 1 state
BuiltFromPhase1End ==
  /\ screen = "Phase2"
  /\ initialState = InitialOf(Phase2Built(problem, Phase1End(problem)))

\* variable v is basic, with the value val in its row's RHS column
BasicAt(v, val) ==
  \E r \in 1..Len(basicVariables) :
    basicVariables[r] = v /\ simplexTable[r][Len(simplexTable[r])] = val

\* C13: scenario B.  Phase 1, run to a message without a reset over pending
\* callbacks, is optimal with objective 0, the feasible message and the flag set;
\* Phase 2 built from the end of Phase 1 ends optimal with x1 = 5/3 and x2 = 2/3
\* basic and the objective value -7/3 (7/3 minimized, held under maximize).
C13_ScenarioB ==
  problem = ScenarioB =>
    /\ (screen = "Phase1" /\ message # NoMessage /\ ~tainted) =>
         /\ message = MsgFeasible
         /\ phase1Complete
         /\ Optimal(simplexTable, Len(variables), "Phase1")
         /\ ObjectiveValue(simplexTable) = Zero
    /\ (BuiltFromPhase1End /\ message # NoMessage) =>
         /\ message = MsgOptimal("Phase2")
         /\ BasicAt(Name("x", 1), Rat(5, 3))
         /\ BasicAt(Name("x", 2), Rat(2, 3))
         /\ ObjectiveValue(simplexTable) = Rat(-7, 3)

\* scenario B at the end of its Phase 2
C13_Witness ==
  /\ problem = ScenarioB
  /\ BuiltFromPhase1End
  /\ lastOp \in {"step", "solve"}
  /\ message = MsgOptimal("Phase2")
  /\ BasicAt(Name("x", 1), Rat(5, 3))

\* C14: scenario A on the single-phase screen of part_002, driven by step() or by
\* solveToOptimal (no reset over pending callbacks): once a message shows it is
\* the optimal message, x1 and x2 are basic with the values 2 and 6, and the Zj
\* entry under the RHS column is 36.
C14_ScenarioA ==
  (problem = ScenarioA("Solution") /\ message # NoMessage /\ ~tainted) =>
    /\ message = MsgOptimal("Solution")
    /\ BasicAt(Name("x", 1), R(2))
    /\ BasicAt(Name("x", 2), R(6))
    /\ ObjectiveValue(simplexTable) = R(36)

\* scenario A at the end of a solve run of two pivots
C14_Witness ==
  /\ problem = ScenarioA("Solution")
  /\ ~tainted
  /\ lastOp = "timer"
  /\ ended # <<>>
  /\ ended[1].pivots = 2
  /\ message = MsgOptimal("Solution")
  /\ ObjectiveValue(simplexTable) = R(36)

\* C15: scenario C.  The feasible flag is never set and the session never leaves
\* the Phase 1 screen (the hand-off returns at once); Phase 1, run to a message
\* without a reset over pending callbacks, is optimal with the objective value 3
\* (not within 1e-10 of 0) and shows the infeasible message.
C15_ScenarioC ==
  problem = ScenarioC =>
    /\ screen = "Phase1"
    /\ ~phase1Complete
    /\ (message # NoMessage /\ ~tainted) =>
         /\ message = MsgInfeasible
         /\ Optimal(simplexTable, Len(variables), "Phase1")
         /\ ~AbsLtEps10(ObjectiveValue(simplexTable))
         /\ ObjectiveValue(simplexTable) = R(3)

\* the hand-off pressed at the end of scenario C's Phase 1
C15_Witness ==
  /\ problem = ScenarioC
  /\ lastOp = "refused"
  /\ ~tainted
  /\ iteration = 2
  /\ message = MsgInfeasible
  /\ ObjectiveValue(simplexTable) = R(3)

\* C16: scenario D on the single-phase screen of part_002, driven by step() or by
\* solveToOptimal: the optimal message never shows, and once a message shows it
\* is the unbounded message, with x2 named as the entering variable and no
\* leaving variable.
C16_ScenarioD ==
  problem = ScenarioD("Solution") =>
    /\ message # MsgOptimal("Solution")
    /\ message # NoMessage =>
         /\ message = MsgUnbounded("Solution")
         /\ enteringVar = Name("x", 2)
         /\ leavingVar = NoVar

\* scenario D at the end of a solve run of one pivot
C16_Witness ==
  /\ problem = ScenarioD("Solution")
  /\ lastOp = "timer"
  /\ ended # <<>>
  /\ ended[1].pivots = 1
  /\ message = MsgUnbounded("Solution")
  /\ enteringVar = Name("x", 2)
  /\ basicVariables = <<Name("x", 1)>>

\* C17: in every reachable state each basis entry names a variable of the
\* current variable list, and no variable is named by two rows (so after the
\* construction of Phase 2 no entry is artificial, absent from the list or a
\* duplicate, also when an artificial variable was still basic at 0).
C17_BasisNamesDistinctVariables ==
  \A r \in 1..Len(basicVariables) :
    /\ IndexOf(variables, basicVariables[r]) # 0
    /\ ~StartsWith(basicVariables[r], "a") \/ screen # "Phase2"
    /\ \A q \in 1..Len(basicVariables) : q # r => basicVariables[q] # basicVariables[r]

\* a variable list without its artificial variables, order kept
NotArtificial(v) == ~StartsWith(v, "a")
WithoutArtificials(vs) == SelectSeq(vs, NotArtificial)

\* the objective coefficient Phase 2 gives the variable v of problem p
Phase2Cost(p, v) ==
  IF StartsWith(v, "x")
  THEN IF p.optType = "Minimize" THEN RNeg(p.objective[v[2]]) ELSE p.objective[v[2]]
  ELSE Zero

\* C18: the hand-off to Phase 2 yields the Phase 1 variable list without the
\* artificial variables, order kept; constraint rows equal to the Phase 1 rows
\* with the artificial columns removed and the RHS kept; and Cj equal to the
\* original objective coefficient on each decision variable (negated when
\* minimizing) and 0 on every slack and surplus variable.
C18_Phase2Construction ==
  [][ lastOp' = "proceed" =>
        /\ variables' = WithoutArtificials(variables)
        /\ Len(simplexTable') = Len(simplexTable)
        /\ \A i \in 1..(Len(simplexTable) - 2) :
             /\ Len(simplexTable'[i]) = Len(variables') + 1
             /\ \A k \in 1..Len(variables') :
                  simplexTable'[i][k] = simplexTable[i][IndexOf(variables, variables'[k])]
             /\ simplexTable'[i][Len(variables') + 1]
                  = simplexTable[i][Len(simplexTable[i])]
        /\ Len(cj') = Len(variables')
        /\ \A k \in 1..Len(variables') : cj'[k] = Phase2Cost(problem, variables'[k]) ]_vars

\* Phase 2 of TwoPhaseUnb as built: a slack and a surplus column kept, the
\* artificial column gone
C18_Witness ==
  /\ problem = TwoPhaseUnb
  /\ lastOp = "proceed"
  /\ variables = <<Name("x", 1), Name("x", 2), Name("s", 1), Name("e", 1)>>
  /\ cj = <<R(2), R(1), Zero, Zero>>
  /\ Len(simplexTable[1]) = 5

\* ------------------------------------------------------------ initial tables

\* the number of rows 1..i whose operator is in ks: the number of row i's own
\* slack, surplus or artificial variable
OwnNumber(types, ks, i) == Cardinality({r \in 1..i : types[r] \in ks})

\* the entry an initial Phase 1 table has in row i under the variable v
Phase1Entry(p, i, v) ==
  LET types == p.constraintTypes
  IN  IF StartsWith(v, "x") THEN p.constraintsMatrix[i][v[2]]
      ELSE IF StartsWith(v, "s")
      THEN IF types[i] = LE /\ v[2] = OwnNumber(types, {LE}, i) THEN One ELSE Zero
      ELSE IF StartsWith(v, "e")
      THEN IF types[i] = GE /\ v[2] = OwnNumber(types, {GE}, i) THEN R(-1) ELSE Zero
      ELSE IF types[i] \in {GE, EQ} /\ v[2] = OwnNumber(types, {GE, EQ}, i)
           THEN One ELSE Zero

\* names k1, k2, ..., kn
Names(k, n) == [i \in 1..n |-> Name(k, i)]

\* C19: for a problem routed to Phase 1 (an operator vector with some >= or =)
\* the initial table has its columns in the order decision variables, slacks,
\* surpluses, artificials; a <= row has +1 under its own slack, a >= row -1 under
\* its own surplus and +1 under its own artificial, an = row +1 under its own
\* artificial, every other auxiliary entry is 0; the basis of a row is its slack
\* (<=) or its artificial (>=, =); Cj is 1 on the artificials and 0 elsewhere.
C19_Phase1InitialTable ==
  screen = "Phase1" =>
    LET p == problem
        types == p.constraintTypes
        m == Len(types)
        init == initialState
    IN  /\ init.vars = Names("x", Len(p.objective))
                         \o Names("s", OwnNumber(types, {LE}, m))
                         \o Names("e", OwnNumber(types, {GE}, m))
                         \o Names("a", OwnNumber(types, {GE, EQ}, m))
        /\ Len(init.table) = m + 2
        /\ \A i \in 1..m :
             /\ Len(init.table[i]) = Len(init.vars) + 1
             /\ \A k \in 1..Len(init.vars) :
                  init.table[i][k] = Phase1Entry(p, i, init.vars[k])
             /\ init.table[i][Len(init.vars) + 1] = p.rhs[i]
             /\ init.basics[i] = IF types[i] = LE
                                 THEN Name("s", OwnNumber(types, {LE}, i))
                                 ELSE Name("a", OwnNumber(types, {GE, EQ}, i))
        /\ Len(init.basics) = m
        /\ init.cj = [k \in 1..Len(init.vars) |->
                        IF StartsWith(init.vars[k], "a") THEN One ELSE Zero]

\* the Phase 1 screen as mounted for the operators >=, <=, =
C19_Witness ==
  /\ screen = "Phase1"
  /\ lastOp = "mount"
  /\ problem.constraintTypes = <<GE, LE, EQ>>
  /\ basicVariables = <<Name("a", 1), Name("s", 1), Name("a", 2)>>
  /\ simplexTable[1][Len(problem.objective) + 2] = R(-1)
  /\ simplexTable = initialState.table

\* C20: for an all-<= problem with n variables and m constraints (part_002) the
\* initial table has Cj equal to the objective, every coefficient negated when
\* minimizing, followed by m zeros; constraint row i equal to constraint i, the
\* i-th unit vector of length m and rhs[i]; and the basis s1..sm in row order.
C20_SinglePhaseInitialTable ==
  screen = "Solution" =>
    LET p == problem
        n == Len(p.objective)
        m == Len(p.constraintsMatrix)
        init == initialState
    IN  /\ init.cj = [j \in 1..n |-> IF p.optType = "Minimize"
                                      THEN RNeg(p.objective[j]) ELSE p.objective[j]]
                       \o [j \in 1..m |-> Zero]
        /\ init.vars = Names("x", n) \o Names("s", m)
        /\ Len(init.table) = m + 2
        /\ \A i \in 1..m :
             init.table[i] = p.constraintsMatrix[i]
                               \o [j \in 1..m |-> IF j = i THEN One ELSE Zero]
                               \o <<p.rhs[i]>>
        /\ init.basics = Names("s", m)

\* the single-phase screen as mounted for a minimize problem of three rows
C20_Witness ==
  /\ screen = "Solution"
  /\ lastOp = "mount"
  /\ problem.optType = "Minimize"
  /\ Len(problem.objective) = 2
  /\ basicVariables = Names("s", 3)
  /\ cj = <<R(-1), R(-2), Zero, Zero, Zero>>
  /\ simplexTable = initialState.table

\* ------------------------------------------------------------ the pivot rule

\* C21: on the part_002, Phase 1 and Phase 2 screens the entering variable is the
\* lowest-index variable column that attains the maximum of the Cj-Zj row (the
\* minimum in Phase 1); none is reported exactly when that maximum is <= 1e-10
\* (that minimum >= -1e-10); the RHS column is never selected.  Checked on the
\* table of every reachable state, for computeZjAndCjMinusZj and for the
\* selection the handlers make.
C21_EnteringIsFirstBestColumn ==
  ~IsAlt(screen) /\ Len(simplexTable) >= 2 =>
    LET n == Len(variables)
        out == computeZjAndCjMinusZj(simplexTable, basicVariables, cj, variables, screen)
        v == out.table[Len(out.table)]
        Best(k) == \A j \in 1..n : IF screen = "Phase1" THEN RLe(v[k], v[j])
                                                        ELSE RLe(v[j], v[k])
        First(k) == Best(k) /\ \A j \in 1..(k - 1) : ~Best(j)
        None == \A k \in 1..n : Best(k) => IF screen = "Phase1" THEN GeNegEps10(v[k])
                                                                ELSE LeEps10(v[k])
        sel == Select(simplexTable, n, screen)
    IN  /\ out.enteringVar = NoVar <=> None
        /\ NoEntering(sel.best, screen) <=> None
        /\ ~None => \E k \in 1..n : /\ First(k)
                                    /\ out.enteringVar = variables[k]
                                    /\ sel.enteringIndex = k

\* two columns tie for the best value and the first one is reported: in Phase 1
\* of scenario B as mounted
C21_Witness ==
  /\ problem = ScenarioB
  /\ screen = "Phase1"
  /\ lastOp = "mount"
  /\ simplexTable[4][1] = R(-3)
  /\ simplexTable[4][2] = R(-3)
  /\ enteringVar = Name("x", 1)

\* C22: given the entering column, the leaving row is the lowest-index row of
\* minimal ratio RHS / coefficient among the constraint rows with a coefficient
\* > 1e-10 in that column and a ratio >= -1e-10 (none when there is no such row);
\* computeZjAndCjMinusZj and the handlers' selection pick that same row.  Stated
\* for the part_002, Phase 1 and Phase 2 screens, on the table of every reachable
\* state that has an entering column.
C22_LeavingIsFirstMinimalRatioRow ==
  ~IsAlt(screen) /\ Len(simplexTable) >= 2 =>
    LET n == Len(variables)
        sel == Select(simplexTable, n, screen)
        out == computeZjAndCjMinusZj(simplexTable, basicVariables, cj, variables, screen)
        e == sel.enteringIndex
        Ratio(i) == RDiv(simplexTable[i][Len(simplexTable[i])], simplexTable[i][e])
        Admitted(i) == GtEps10(simplexTable[i][e]) /\ GeNegEps10(Ratio(i))
        rows == {i \in 1..(Len(simplexTable) - 2) : Admitted(i)}
        Minimal(i) == i \in rows /\ \A k \in rows : RLe(Ratio(i), Ratio(k))
        First(i) == Minimal(i) /\ \A k \in 1..(i - 1) : ~Minimal(k)
    IN  ~NoEntering(sel.best, screen) =>
          /\ rows = {} => sel.leavingRowIdx = 0 /\ out.leavingVar = NoVar
          /\ rows # {} => /\ sel.leavingRowIdx # 0
                          /\ First(sel.leavingRowIdx)
                          /\ out.leavingVar = basicVariables[sel.leavingRowIdx]

\* C23: after construction, after reset() and after every step() the entering and
\* leaving variables on screen are those the pivot rule selects on the table on
\* screen: entering is none iff the table is optimal, and leaving is none iff no
\* row passes the ratio test for the entering column, else it is the basis entry
\* of the selected row.  Stated for the part_002, Phase 1 and Phase 2 screens.
C23_ShownVariablesAreSelected ==
  /\ lastOp \in {"mount", "proceed", "reset", "step"}
  /\ ~IsAlt(screen)
  /\ Len(simplexTable) >= 2
  =>
    LET sel == Select(simplexTable, Len(variables), screen)
    IN  IF NoEntering(sel.best, screen)
        THEN enteringVar = NoVar /\ leavingVar = NoVar
        ELSE /\ enteringVar = variables[sel.enteringIndex]
             /\ leavingVar = IF sel.leavingRowIdx = 0 THEN NoVar
                             ELSE basicVariables[sel.leavingRowIdx]

\* ------------------------------------------------------------ session invariants

\* C24: in every reachable state, whatever the interleaving of step(), solve
\* continuations and reset(), the iteration counter is 1 plus the number of
\* pivots that lead from the saved initial table to the table on screen: the
\* table and basis on screen are those k presses of step() give from the reset
\* state, and the counter is 1 plus the number of those presses that pivoted
\* (changed the table or the basis).
C24_IterationCountsPivots ==
  Len(simplexTable) >= 2 =>
    LET base == handleReset(Cur, initialState, screen)
        After(k) == StepsToMessage(base, screen, k)
        Pivoted(j) == \/ After(j).simplexTable # After(j - 1).simplexTable
                      \/ After(j).basicVariables # After(j - 1).basicVariables
    IN  \E k \in 0..MaxPresses :
          /\ After(k).simplexTable = simplexTable
          /\ After(k).basicVariables = basicVariables
          /\ iteration = 1 + Cardinality({j \in 1..k : Pivoted(j)})

\* a continuation scheduled before a reset() has written its table and its
\* counter over the reset state
C24_Witness ==
  /\ tainted
  /\ lastOp = "timer"
  /\ iteration = 3
  /\ simplexTable # InitialTable

\* C25: in every reachable state with a built table every row (constraint rows,
\* Zj row, Cj-Zj row) has length |variables| + 1, the table has one row per
\* constraint and two more, the basis has one entry per constraint row and Cj one
\* entry per variable; the same holds for the saved initial table, and so for
\* the Phase 2 table built from a Phase 1 table.
C25_TableShape ==
  LET m == Len(problem.constraintsMatrix)
      Shaped(table, vs, c, basics) ==
        /\ Len(table) = m + 2
        /\ \A i \in 1..Len(table) : Len(table[i]) = Len(vs) + 1
        /\ Len(basics) = m
        /\ Len(c) = Len(vs)
  IN  /\ Shaped(simplexTable, variables, cj, basicVariables)
      /\ Shaped(initialState.table, initialState.vars, initialState.cj,
                initialState.basics)

\* the Phase 2 table of a problem with surplus and artificial variables, pivoted
C25_Witness ==
  /\ screen = "Phase2"
  /\ problem = TwoPhaseUnb
  /\ iteration > 1
  /\ Len(simplexTable) = 4
  /\ Len(simplexTable[1]) = 5

\* C26: step(), the solve calls and reset() do not change the equations on
\* screen: after any sequence of them the equations are those formatEquations
\* derived when the screen was mounted.
C26_EquationsKept ==
  [][lastOp' \in {"step", "solve", "timer", "reset"} => equations' = equations]_vars

\* ------------------------------------------------------------ feasibility

\* C27: when every right-hand side of the problem is >= 0, the right-hand side of
\* every constraint row is >= 0 in every reachable table of the single-phase,
\* Phase 1 and Phase 2 sessions.
C27_RhsStaysNonNegative ==
  (\A i \in DOMAIN problem.rhs : RLe(Zero, problem.rhs[i])) =>
    \A i \in 1..(Len(simplexTable) - 2) :
      RLe(Zero, simplexTable[i][Len(simplexTable[i])])

\* C28: when every right-hand side of the problem is >= 0, the objective value
\* (the Zj entry under the RHS column) does not decrease from the table a step()
\* pivots on to the table it leaves on the part_002 screen, does not increase in
\* Phase 1, and in Phase 1 it is >= 0 in every reachable state.
C28_ObjectiveMonotone ==
  /\ [](/\ screen = "Phase1"
        /\ \A i \in DOMAIN problem.rhs : RLe(Zero, problem.rhs[i])
        => RLe(Zero, ObjectiveValue(simplexTable)))
  /\ [][/\ lastOp' = "step"
        /\ iteration' = iteration + 1
        /\ \A i \in DOMAIN problem.rhs : RLe(Zero, problem.rhs[i])
        => /\ screen = "Solution" =>
                RLe(ObjectiveValue(simplexTable), ObjectiveValue(simplexTable'))
           /\ screen = "Phase1" =>
                RLe(ObjectiveValue(simplexTable'), ObjectiveValue(simplexTable))]_vars

\* C29: when every right-hand side of the problem is >= 0, no sequence of step()
\* and solve calls in a Phase 1 session reaches the message "Phase 1 problem is
\* unbounded.": whenever Phase 1 has an entering column, some row passes the
\* ratio test.
C29_Phase1NeverUnbounded ==
  /\ screen = "Phase1"
  /\ \A i \in DOMAIN problem.rhs : RLe(Zero, problem.rhs[i])
  =>
    /\ message # MsgUnbounded("Phase1")
    /\ LET sel == Select(simplexTable, Len(variables), "Phase1")
       IN  ~NoEntering(sel.best, "Phase1") => sel.leavingRowIdx # 0

\* C30: no sequence of step() and solve calls reaches a pivot-error message: the
\* element at the entering column and the row the ratio test selects exceeds
\* 1e-10 (is positive on the part_003 screen), so performPivot does not throw.
C30_NoPivotError ==
  /\ message \notin {MsgPivotError(screen), MsgAutoPivotError(screen)}
  /\ Len(simplexTable) >= 2 =>
       LET sel == Select(simplexTable, Len(variables), screen)
       IN  ~NoEntering(sel.best, screen) /\ sel.leavingRowIdx # 0 =>
             /\ ColPositive(simplexTable[sel.leavingRowIdx][sel.enteringIndex], screen)
             /\ ~PivotThrows(simplexTable[sel.leavingRowIdx][sel.enteringIndex], screen)

\* a table on which the next step() pivots on an element other than 1
C30_Witness ==
  /\ problem = ScenarioA("Solution")
  /\ lastOp = "mount"
  /\ enteringVar = Name("x", 2)
  /\ leavingVar = Name("s", 2)
  /\ simplexTable[2][2] = R(2)

====
